---- MODULE Spec2Model ----
(***************************************************************************)
(* A model of ltn/core.py: Domain, Constant, Variable, the broadcasting    *)
(* engine cross_grounding_values and Predicate.forward.                    *)
(*                                                                         *)
(* A torch tensor is a record [shape, data]: shape is the sequence of axis *)
(* sizes and data the entries in row-major (C-contiguous, logical) order.  *)
(* A Python attribute bolted onto a tensor (active_doms) is one more field *)
(* of the record; a tensor freshly returned by a torch operation has no    *)
(* such field.  Axis numbers and permutations are 0-based as in Python,    *)
(* positions of TLA+ sequences are 1-based.                                *)
(*                                                                         *)
(* The library is a set of functions without global state.  The state of   *)
(* the model is the last call made by a client: its name, its arguments    *)
(* and what it returned or raised.                                         *)
(***************************************************************************)
EXTENDS Integers, Sequences, FiniteSets, TLC

VARIABLES call, args, ret

vars == <<call, args, ret>>

\* ------------------------------------------------------------------ bounds
\* largest number of individuals of a variable / largest size of a value axis
MaxCount == 2
\* largest number of groundings handed to one call
MaxArgs == 2

\* labels of logical variables, as sequences of characters
Labels == {<<"x">>, <<"y">>}

\* numbers of individuals of a variable: a single individual (an axis of size 1)
\* and MaxCount individuals
Counts == {1, MaxCount}

\* shapes of the value axes (the Domain shapes): scalars and vectors
ValueShapes == {<<>>, <<2>>}

\* ------------------------------------------------------------ tensor algebra
RECURSIVE Prod(_)
Prod(s) == IF s = <<>> THEN 1 ELSE Head(s) * Prod(Tail(s))

Range(s) == {s[i] : i \in 1..Len(s)}

\* list.index(v): 0-based position of the first occurrence
IndexOf(s, v) == (CHOOSE i \in 1..Len(s) : s[i] = v /\ \A j \in 1..(i - 1) : s[j] # v) - 1

\* multi-index (0-based entries) of the entry at 0-based row-major offset k
Unravel(k, shape) ==
  [i \in 1..Len(shape) |-> (k \div Prod(SubSeq(shape, i + 1, Len(shape)))) % shape[i]]

RECURSIVE Ravel(_, _)
Ravel(idx, shape) ==
  IF idx = <<>> THEN 0
  ELSE Head(idx) * Prod(Tail(shape)) + Ravel(Tail(idx), Tail(shape))

\* t[idx]
At(t, idx) == t.data[Ravel(idx, t.shape) + 1]

\* the tensor of the given shape whose entries are 0, 1, 2, ... in row-major order
Iota(shape) == [shape |-> shape, data |-> [k \in 1..Prod(shape) |-> k - 1]]

\* torch.unsqueeze(t, dim)
unsqueeze(t, dim) ==
  [shape |-> SubSeq(t.shape, 1, dim) \o <<1>> \o SubSeq(t.shape, dim + 1, Len(t.shape)),
   data  |-> t.data]

\* torch.repeat_interleave(t, repeats, dim): every slice along dim is repeated
\* `repeats` times in a row
repeat_interleave(t, repeats, dim) ==
  LET shp == [t.shape EXCEPT ![dim + 1] = @ * repeats]
  IN  [shape |-> shp,
       data  |-> [k \in 1..Prod(shp) |->
                    LET idx == Unravel(k - 1, shp)
                    IN  At(t, [idx EXCEPT ![dim + 1] = @ \div repeats])]]

\* t.permute(perm): axis i of the result is axis perm[i] of t
permute(t, perm) ==
  LET shp == [i \in 1..Len(perm) |-> t.shape[perm[i] + 1]]
  IN  [shape |-> shp,
       data  |-> [k \in 1..Prod(shp) |->
                    LET idx == Unravel(k - 1, shp)
                        old == [j \in 1..Len(perm) |-> idx[IndexOf(perm, j - 1) + 1]]
                    IN  At(t, old)]]

\* torch.reshape(t, shape): the entries keep their row-major order; one size may
\* be -1 and is inferred from the number of entries
reshape(t, shape) ==
  LET known == Prod([i \in 1..Len(shape) |-> IF shape[i] = -1 THEN 1 ELSE shape[i]])
      shp   == [i \in 1..Len(shape) |->
                  IF shape[i] = -1 THEN Len(t.data) \div known ELSE shape[i]]
  IN  [shape |-> shp, data |-> t.data]

\* reshape raises RuntimeError when the sizes do not fit the number of entries
reshape_fits(t, shape) ==
  LET known == Prod([i \in 1..Len(shape) |-> IF shape[i] = -1 THEN 1 ELSE shape[i]])
  IN  IF \E i \in 1..Len(shape) : shape[i] = -1
      THEN known > 0 /\ Len(t.data) % known = 0
      ELSE known = Len(t.data)

\* obj.name = value on a Python object
SetAttr(t, doms) ==
  [shape |-> t.shape, data |-> t.data, active_doms |-> doms]

HasAttr(o, name) == name \in DOMAIN o

\* ------------------------------------------------------------------- Domain
\* the Domain objects of the model: shape is a tuple of non-negative integers
Domains == {[shape |-> s, domain_name |-> "d"] : s \in ValueShapes}

\* A Python value given as shape: py is its type ("tuple", "list", or "int" for
\* a bare number, which cannot be iterated), items its elements; an element is
\* [type, val], an int (negative or not) or a float.
isinstance(v, type) == v.type = type

\* Domain(shape, domain_name)
Domain_init(shape, domain_name) ==
  IF shape.py = "tuple"
  THEN [err |-> "none", obj |-> [shape |-> shape, domain_name |-> domain_name]]
  ELSE IF shape.py = "int"
  THEN [err |-> "TypeError"]               \* all(... for v in shape) of a number
  ELSE IF \A i \in 1..Len(shape.items) : isinstance(shape.items[i], "int")
  THEN [err |-> "ValueError"]
  ELSE [err |-> "none", obj |-> [shape |-> shape, domain_name |-> domain_name]]

\* ----------------------------------------------------------------- Constant
\* Constant(constant_name, domain, value, trainable); value is given as the
\* tensor torch.tensor(value) builds from it
Constant_init(constant_name, domain, value, trainable) ==
  IF value.shape # domain.shape
  THEN [err |-> "ValueError"]
  ELSE [err |-> "none",
        obj |-> [constant_name  |-> constant_name,
                 grounding      |-> [shape |-> value.shape, data |-> value.data,
                                     requires_grad |-> trainable],
                 domain         |-> domain,
                 free_variables |-> <<>>]]

\* ----------------------------------------------------------------- Variable
\* str.startswith
startswith(s, prefix) ==
  Len(s) >= Len(prefix) /\ SubSeq(s, 1, Len(prefix)) = prefix

\* tensor.view(1, n) of a tensor of rank 1
view_1_n(t) == [shape |-> <<1, t.shape[1]>>, data |-> t.data]

\* Variable(variable_name, domain, individuals_seq); individuals_seq is given as
\* the tensor it is (or the tensor torch.tensor builds from it)
Variable_init(variable_name, domain, individuals_seq) ==
  LET grounding == individuals_seq
  IN  IF grounding.shape = <<>>
      THEN [err |-> "IndexError"]            \* grounding[0] of a 0-dim tensor
      ELSE IF Tail(grounding.shape) # domain.shape
      THEN [err |-> "ValueError"]
      ELSE IF startswith(variable_name, <<"d", "i", "a", "g">>)
      THEN [err |-> "ValueError"]
      ELSE [err |-> "none",
            obj |-> [variable_name  |-> variable_name,
                     grounding      |-> IF Len(grounding.shape) = 1
                                        THEN view_1_n(grounding)
                                        ELSE grounding,
                     domain         |-> domain,
                     free_variables |-> <<variable_name>>]]

\* --------------------------------------------------- cross_grounding_values
\* dict_set as it would be if assigning to a key the dict already has moved the
\* key to the end (last-seen instead of first-seen order)
dict_set_reinsert(d, k, v) ==
  LET keep == {i \in 1..Len(d.keys) : d.keys[i] # k}
      pick(q) == [i \in 1..Cardinality(keep) |->
                    q[CHOOSE j \in keep : Cardinality({m \in keep : m < j}) = i - 1]]
  IN  [keys |-> Append(pick(d.keys), k), vals |-> Append(pick(d.vals), v)]

\* a dict keeps its keys in insertion order; assigning to a key it already has
\* replaces the value and leaves the key where it is
dict_set(d, k, v) ==
  IF k \in Range(d.keys)
  THEN [keys |-> d.keys, vals |-> [d.vals EXCEPT ![IndexOf(d.keys, k) + 1] = v]]
  ELSE [keys |-> Append(d.keys, k), vals |-> Append(d.vals, v)]

dict_get(d, k) == d.vals[IndexOf(d.keys, k) + 1]

\* get_dim0_of_dom as it would be if it read the size of axis 0 whatever the domain
get_dim0_of_axis0(grounding, dom) ==
  grounding.shape[1]

get_dim0_of_dom(grounding, dom) ==
  grounding.shape[IndexOf(grounding.active_doms, dom) + 1]

\* for dom in grounding.active_doms: doms_to_dim0[dom] = get_dim0_of_dom(...)
RECURSIVE scan_doms(_, _, _)
scan_doms(d, grounding, i) ==
  IF i > Len(grounding.active_doms) THEN d
  ELSE scan_doms(dict_set(d, grounding.active_doms[i],
                          get_dim0_of_dom(grounding, grounding.active_doms[i])),
                 grounding, i + 1)

\* for grounding in groundings: ...
RECURSIVE scan_groundings(_, _)
scan_groundings(d, groundings) ==
  IF groundings = <<>> THEN d
  ELSE scan_groundings(scan_doms(d, Head(groundings), 1), Tail(groundings))

\* for new_dom in doms_not_in_grounding: unsqueeze, repeat_interleave, append
RECURSIVE expand(_, _, _, _)
expand(grounding, doms_in_grounding, doms_not_in_grounding, doms_to_dim0) ==
  IF doms_not_in_grounding = <<>>
  THEN [grounding |-> grounding, doms_in_grounding |-> doms_in_grounding]
  ELSE LET new_dom == Head(doms_not_in_grounding)
           new_idx == Len(doms_in_grounding)
       IN  expand(repeat_interleave(unsqueeze(grounding, new_idx),
                                    dict_get(doms_to_dim0, new_dom), new_idx),
                  Append(doms_in_grounding, new_dom),
                  Tail(doms_not_in_grounding), doms_to_dim0)

\* perm_of as it would be if the axes were left in the order of the expansion
perm_of_unpermuted(doms_in_grounding, doms, rank) ==
  [i \in 1..rank |-> i - 1]

\* perm = [doms_in_grounding.index(dom) for dom in doms] + list(range(...))
perm_of(doms_in_grounding, doms, rank) ==
  [i \in 1..Len(doms) |-> IndexOf(doms_in_grounding, doms[i])]
  \o [i \in 1..(rank - Len(doms_in_grounding)) |-> Len(doms_in_grounding) + i - 1]

\* the body of the second loop, for one grounding; doms_not_in_grounding is the
\* list made of the set difference, in the order the set happens to iterate
cross_one(grounding, doms, doms_to_dim0, doms_not_in_grounding, flatten_dim0) ==
  LET e == expand(grounding, grounding.active_doms, doms_not_in_grounding, doms_to_dim0)
      perm == perm_of(e.doms_in_grounding, doms, Len(e.grounding.shape))
      p == SetAttr(permute(e.grounding, perm), doms)
  IN  IF flatten_dim0
      THEN reshape(p, <<-1>> \o SubSeq(p.shape, Len(e.doms_in_grounding) + 1, Len(p.shape)))
      ELSE p

\* order[i] is the iteration order of set(doms).difference(doms_in_grounding)
\* for the i-th grounding
cross_grounding_values(groundings, flatten_dim0, order) ==
  IF \E i \in 1..Len(groundings) : ~HasAttr(groundings[i], "active_doms")
  THEN [err |-> "AttributeError"]
  ELSE LET doms_to_dim0 == scan_groundings([keys |-> <<>>, vals |-> <<>>], groundings)
           doms == doms_to_dim0.keys
           dims0 == doms_to_dim0.vals
       IN  [err |-> "none",
            crossed_groundings |->
              [i \in 1..Len(groundings) |->
                 cross_one(groundings[i], doms, doms_to_dim0, order[i], flatten_dim0)],
            doms |-> doms,
            dims0 |-> dims0]

\* the orders in which a Python set of these elements may iterate
Perms(S) ==
  {p \in [1..Cardinality(S) -> S] : \A i, j \in 1..Cardinality(S) : p[i] = p[j] => i = j}

\* one iteration order per grounding
RECURSIVE Orders(_, _)
Orders(groundings, doms) ==
  IF groundings = <<>> THEN {<<>>}
  ELSE {<<p>> \o rest :
          p \in Perms(Range(doms) \ Range(Head(groundings).active_doms)),
          rest \in Orders(Tail(groundings), doms)}

SetOrders(groundings) ==
  IF \E i \in 1..Len(groundings) : ~HasAttr(groundings[i], "active_doms")
  THEN {<<>>}
  ELSE Orders(groundings,
              scan_groundings([keys |-> <<>>, vals |-> <<>>], groundings).keys)

\* ---------------------------------------------------------------- Predicate
\* the wrapped model: an opaque mapping from the rows of its flattened inputs to
\* one truth value per row; it returns shape [flat_batch] or [flat_batch, 1].
\* The value of row r is the application of the mapping to the r-th rows.
row(t, r) ==
  LET w == Prod(Tail(t.shape)) IN SubSeq(t.data, (r - 1) * w + 1, r * w)

model(inputs, column) ==
  LET flat_batch == inputs[1].shape[1]
  IN  [shape |-> IF column THEN <<flat_batch, 1>> ELSE <<flat_batch>>,
       data  |-> [r \in 1..flat_batch |->
                    [applied_to |-> [i \in 1..Len(inputs) |-> row(inputs[i], r)]]]]

\* Predicate.forward(inputs); is_list tells a list or tuple of groundings from a
\* single grounding (then inputs holds that one grounding)
Predicate_forward(inputs, is_list, order, column) ==
  LET crossed == cross_grounding_values(inputs, TRUE, order)
  IN  IF crossed.err # "none" THEN [err |-> crossed.err]
      ELSE IF is_list
      THEN [err |-> "AttributeError"]        \* print(inputs.shape) of a list
      ELSE LET outputs == model(<<crossed.crossed_groundings[1]>>, column)
           IN  IF crossed.dims0 # <<>>
               THEN IF reshape_fits(outputs, crossed.dims0)
                    THEN [err |-> "none",
                          outputs |-> SetAttr(reshape(outputs, crossed.dims0), crossed.doms)]
                    ELSE [err |-> "RuntimeError"]
               ELSE [err |-> "none", outputs |-> SetAttr(outputs, crossed.doms)]

\* ------------------------------------------------------------ the inputs
NoDupSeqs(S) ==
  UNION {{q \in [1..m -> S] : \A i, j \in 1..m : q[i] = q[j] => i = j} :
         m \in 0..Cardinality(S)}

\* groundings as the engine and the predicates return them: a tensor tagged with
\* its active domains, one leading axis per domain, then the value axes
Groundings ==
  UNION {{SetAttr(Iota(counts \o vs), doms) :
            counts \in [1..Len(doms) -> Counts], vs \in ValueShapes} :
         doms \in NoDupSeqs(Labels)}

\* the objects the constructors of Constant and Variable build
ConstantObjs ==
  {Constant_init(<<"c">>, D, Iota(D.shape), FALSE).obj : D \in Domains}

VariableObjs ==
  {Variable_init(l, D, Iota(<<MaxCount>> \o D.shape)).obj : l \in Labels, D \in Domains}

\* what a client has at hand to pass to the engine or to a predicate
Terms == Groundings \cup ConstantObjs \cup VariableObjs

Lists(S, n) == UNION {[1..m -> S] : m \in 0..n}

\* names a client may give a Variable
Names == Labels \cup {<<"d", "i">>, <<"d", "i", "a", "g">>, <<"d", "i", "a", "g", "x">>}

\* shapes of the tensors a client may give as individuals or as a value
InputShapes == UNION {[1..m -> Counts \cup {2}] : m \in 0..2}

\* elements a client may put in a shape: integers, a negative one among them,
\* and a float
ShapeItems ==
  {[type |-> "int", val |-> v] : v \in {-1, 0, MaxCount}} \cup {[type |-> "float", val |-> 1]}

\* values a client may give Domain as shape
ShapeValues ==
  {[py |-> k, items |-> q] : k \in {"tuple", "list"}, q \in Lists(ShapeItems, MaxArgs)}
  \cup {[py |-> "int", items |-> <<>>]}

\* ------------------------------------------------------------ the machine
\* A client makes one call of the library; the state keeps the call, its
\* arguments and its outcome.
Init ==
  /\ call = "none"
  /\ args = <<>>
  /\ ret = <<>>

NewDomain ==
  /\ call = "none"
  /\ \E shape \in ShapeValues :
       /\ call' = "Domain"
       /\ args' = [shape |-> shape, domain_name |-> "d"]
       /\ ret' = Domain_init(shape, "d")

NewConstant ==
  /\ call = "none"
  /\ \E domain \in Domains, shape \in InputShapes, trainable \in BOOLEAN :
       /\ call' = "Constant"
       /\ args' = [constant_name |-> <<"c">>, domain |-> domain,
                   value |-> Iota(shape), trainable |-> trainable]
       /\ ret' = Constant_init(<<"c">>, domain, Iota(shape), trainable)

NewVariable ==
  /\ call = "none"
  /\ \E variable_name \in Names, domain \in Domains, shape \in InputShapes :
       /\ call' = "Variable"
       /\ args' = [variable_name |-> variable_name, domain |-> domain,
                   individuals_seq |-> Iota(shape)]
       /\ ret' = Variable_init(variable_name, domain, Iota(shape))

CrossGroundingValues ==
  /\ call = "none"
  /\ \E groundings \in Lists(Terms, MaxArgs), flatten_dim0 \in BOOLEAN :
       \E order \in SetOrders(groundings) :
         /\ call' = "cross_grounding_values"
         /\ args' = [groundings |-> groundings, flatten_dim0 |-> flatten_dim0,
                     order |-> order]
         /\ ret' = cross_grounding_values(groundings, flatten_dim0, order)

\* a client hands the aligned groundings of a call (flatten_dim0=False) to the
\* engine again, as every combinator does with the results of its operands
CrossAgain ==
  /\ call = "cross_grounding_values"
  /\ ret.err = "none"
  /\ ~args.flatten_dim0
  /\ \E order \in SetOrders(ret.crossed_groundings) :
       /\ call' = "cross_grounding_values"
       /\ args' = [groundings |-> ret.crossed_groundings, flatten_dim0 |-> FALSE,
                   order |-> order]
       /\ ret' = cross_grounding_values(ret.crossed_groundings, FALSE, order)

\* P(inputs) with a single grounding
ForwardOne ==
  /\ call = "none"
  /\ \E inputs \in Terms, column \in BOOLEAN :
       /\ call' = "Predicate.forward"
       /\ args' = [inputs |-> <<inputs>>, is_list |-> FALSE, order |-> <<<<>>>>,
                   column |-> column]
       /\ ret' = Predicate_forward(<<inputs>>, FALSE, <<<<>>>>, column)

\* P(inputs) with a list or tuple of groundings
ForwardList ==
  /\ call = "none"
  /\ \E inputs \in Lists(Terms, MaxArgs), column \in BOOLEAN :
       \E order \in SetOrders(inputs) :
         /\ call' = "Predicate.forward"
         /\ args' = [inputs |-> inputs, is_list |-> TRUE, order |-> order,
                     column |-> column]
         /\ ret' = Predicate_forward(inputs, TRUE, order, column)

Next ==
  \/ NewDomain
  \/ NewConstant
  \/ NewVariable
  \/ CrossGroundingValues
  \/ CrossAgain
  \/ ForwardOne
  \/ ForwardList

Spec == Init /\ [][Next]_vars

\* ================================================================ properties
\* ----------------------------------------------------- vocabulary of the claims
IsCross == call = "cross_grounding_values"

IsForward == call = "Predicate.forward"

\* the inputs are all groundings: tensors that carry their active domains
AllGroundings(gs) == \A i \in 1..Len(gs) : HasAttr(gs[i], "active_doms")

\* number of individuals of label l in grounding g (l is among g's active domains)
CountIn(g, l) == g.shape[CHOOSE i \in 1..Len(g.active_doms) : g.active_doms[i] = l]

\* no label is carried with two different counts
Consistent(gs) ==
  \A i, j \in 1..Len(gs) :
    \A l \in Range(gs[i].active_doms) \cap Range(gs[j].active_doms) :
      CountIn(gs[i], l) = CountIn(gs[j], l)

\* all the active-domain labels of the inputs, left to right
RECURSIVE AllLabels(_)
AllLabels(gs) ==
  IF gs = <<>> THEN <<>> ELSE Head(gs).active_doms \o AllLabels(Tail(gs))

\* a sequence without its repeats, every element at its first occurrence
RECURSIVE FirstSeen(_)
FirstSeen(s) ==
  IF s = <<>> THEN <<>>
  ELSE LET init == FirstSeen(SubSeq(s, 1, Len(s) - 1))
       IN  IF s[Len(s)] \in Range(init) THEN init ELSE Append(init, s[Len(s)])

\* the counts the inputs give label l
CountsOf(gs, l) ==
  {CountIn(gs[i], l) : i \in {k \in 1..Len(gs) : l \in Range(gs[k].active_doms)}}

\* the value axes of a grounding: what follows its active-domain axes
ValueAxes(g) == SubSeq(g.shape, Len(g.active_doms) + 1, Len(g.shape))

\* the entry of input grounding g that belongs to index idx of a tensor laid out
\* over the domains doms (then the value axes): idx restricted to g's own domains
Restricted(g, doms, idx) ==
  At(g, [j \in 1..Len(g.active_doms) |->
           idx[CHOOSE i \in 1..Len(doms) : doms[i] = g.active_doms[j]]]
        \o SubSeq(idx, Len(doms) + 1, Len(idx)))

\* a Variable as a grounding: exactly one active domain, axis 0 its individuals
IsVariable(g) == HasAttr(g, "active_doms") /\ Len(g.active_doms) = 1

\* a Constant as a grounding: no active domain
IsConstant(g) == HasAttr(g, "active_doms") /\ Len(g.active_doms) = 0

\* ---------------------------------------------------------------------- C2
\* C2: for groundings with consistent per-label counts, every grounding returned
\* by cross_grounding_values(flatten_dim0=False) has one leading axis per
\* canonical domain, in canonical (first-seen) order and of the canonical count,
\* followed by the input's value axes in their order; and its entry at any index
\* is the input's entry at that index restricted to the input's own active
\* domains (the values are repeated along the axes the input did not have).
C2_AlignedLayout ==
  (IsCross /\ ~args.flatten_dim0 /\ AllGroundings(args.groundings)
     /\ Consistent(args.groundings))
  => /\ ret.err = "none"
     /\ Len(ret.crossed_groundings) = Len(args.groundings)
     /\ LET canon == FirstSeen(AllLabels(args.groundings))
            count == [i \in 1..Len(canon) |->
                        CHOOSE c \in CountsOf(args.groundings, canon[i]) : TRUE]
        IN  \A i \in 1..Len(args.groundings) :
              LET g == args.groundings[i]
                  out == ret.crossed_groundings[i]
              IN  /\ out.shape = count \o ValueAxes(g)
                  /\ Len(out.data) = Prod(out.shape)
                  /\ \A k \in 1..Len(out.data) :
                       out.data[k] = Restricted(g, canon, Unravel(k - 1, out.shape))

\* a call that had to add an axis in front of an input's own axis and to keep a
\* value axis behind: input [y] with vector values, canonical order [x, y]
C2_Witness ==
  /\ IsCross /\ ~args.flatten_dim0 /\ ret.err = "none"
  /\ Len(args.groundings) = 2
  /\ Consistent(args.groundings)
  /\ args.groundings[1].active_doms = <<<<"x">>>>
  /\ args.groundings[2].active_doms = <<<<"y">>>>
  /\ args.groundings[2].shape = <<MaxCount, 2>>
  /\ ret.crossed_groundings[2].shape = <<MaxCount, MaxCount, 2>>

\* ---------------------------------------------------------------------- C3
\* C3: the domain list cross_grounding_values returns is the union of the inputs'
\* active domains, without repeats, in first-seen order (inputs left to right,
\* each input's active domains left to right); dims0 has, at the same position,
\* the number of individuals of that domain (a count some input gives the
\* domain, and the count whenever the inputs agree on one); for an empty input
\* list the three results are empty.
C3_FirstSeenDomains ==
  (IsCross /\ AllGroundings(args.groundings))
  => /\ ret.err = "none"
     /\ ret.doms = FirstSeen(AllLabels(args.groundings))
     /\ Range(ret.doms) = UNION {Range(args.groundings[i].active_doms) :
                                   i \in 1..Len(args.groundings)}
     /\ Len(ret.dims0) = Len(ret.doms)
     /\ \A i \in 1..Len(ret.doms) :
          /\ ret.dims0[i] \in CountsOf(args.groundings, ret.doms[i])
          /\ Cardinality(CountsOf(args.groundings, ret.doms[i])) = 1
               => CountsOf(args.groundings, ret.doms[i]) = {ret.dims0[i]}
     /\ args.groundings = <<>>
          => ret.crossed_groundings = <<>> /\ ret.doms = <<>> /\ ret.dims0 = <<>>

\* a call where a label comes back in a later input and the first-seen order is
\* not the order of that later input
C3_Witness ==
  /\ IsCross /\ ret.err = "none"
  /\ Len(args.groundings) = 2
  /\ args.groundings[1].active_doms = <<<<"y">>>>
  /\ args.groundings[2].active_doms = <<<<"x">>, <<"y">>>>
  /\ ret.doms = <<<<"y">>, <<"x">>>>
  /\ ret.dims0 = <<1, MaxCount>>

\* ---------------------------------------------------------------------- C1
\* C1: for Variables with pairwise distinct labels, a Predicate evaluated on one
\* Variable x (k individuals) returns a grounding with active domains [x.label]
\* and leading axis size k, and evaluated on the list [x, y] (n and m
\* individuals) returns a grounding of shape (n, m) with active domains
\* [x.label, y.label] whose entry [i, j] is the wrapped mapping applied to
\* (x_i, y_j).
C1_PredicateOnVariables ==
  (IsForward /\ Len(args.inputs) \in {1, 2}
     /\ (args.is_list <=> Len(args.inputs) = 2)
     /\ (\A i \in 1..Len(args.inputs) : IsVariable(args.inputs[i]))
     /\ (\A i, j \in 1..Len(args.inputs) :
           args.inputs[i].active_doms = args.inputs[j].active_doms => i = j))
  => /\ ret.err = "none"
     /\ ret.outputs.active_doms = [i \in 1..Len(args.inputs) |-> args.inputs[i].active_doms[1]]
     /\ ret.outputs.shape = [i \in 1..Len(args.inputs) |-> args.inputs[i].shape[1]]
     /\ \A k \in 1..Prod(ret.outputs.shape) :
          ret.outputs.data[k] =
            [applied_to |-> [i \in 1..Len(args.inputs) |->
                               row(args.inputs[i], Unravel(k - 1, ret.outputs.shape)[i] + 1)]]

\* ---------------------------------------------------------------------- C4
\* C4: when two inputs of one cross_grounding_values call (or of one Predicate
\* evaluation) carry the same label with two different counts, the call fails
\* with a domain-conflict error and returns no aligned groundings.
C4_ConflictRaises ==
  /\ (IsCross /\ AllGroundings(args.groundings) /\ ~Consistent(args.groundings))
       => ret.err = "DomainConflictError"
  /\ (IsForward /\ AllGroundings(args.inputs) /\ ~Consistent(args.inputs))
       => ret.err = "DomainConflictError"

\* ---------------------------------------------------------------------- C5
\* C5: with flatten_dim0=True every grounding cross_grounding_values returns has
\* its leading active-domain axes collapsed into one axis whose size is the
\* product of all canonical domain counts, the value axes unchanged behind it,
\* and flat row r of every returned grounding belongs to the same tuple of
\* individuals: the r-th in row-major order over the canonical domains.
C5_FlattenCollapses ==
  (IsCross /\ args.flatten_dim0 /\ ret.err = "none")
  => \A i \in 1..Len(ret.crossed_groundings) :
       LET g == args.groundings[i]
           out == ret.crossed_groundings[i]
       IN  /\ out.shape = <<Prod(ret.dims0)>> \o ValueAxes(g)
           /\ \A k \in 1..Len(out.data) :
                LET idx == Unravel(k - 1, out.shape)
                IN  out.data[k] =
                      Restricted(g, ret.doms, Unravel(idx[1], ret.dims0) \o Tail(idx))

\* ---------------------------------------------------------------------- C6
\* C6: every grounding returned by cross_grounding_values (with or without
\* flattening) and by a Predicate evaluation carries its active-domain list, the
\* list is no longer than the tensor's rank, and the i-th leading axis of the
\* tensor has the size of the i-th active domain.
CarriesActiveDomains(t, sizes) ==
  /\ HasAttr(t, "active_doms")
  /\ Len(t.active_doms) <= Len(t.shape)
  /\ Len(t.active_doms) = Len(sizes)
  /\ \A i \in 1..Len(sizes) : t.shape[i] = sizes[i]

\* the size of every canonical domain as grounding g has it: g's own count of a
\* domain g carries, the canonical count of a domain the engine added to it
SizesFor(g, doms, dims0) ==
  [i \in 1..Len(doms) |->
     IF doms[i] \in Range(g.active_doms) THEN CountIn(g, doms[i]) ELSE dims0[i]]

C6_MetadataCarried ==
  /\ (IsCross /\ ret.err = "none")
       => \A i \in 1..Len(ret.crossed_groundings) :
            CarriesActiveDomains(ret.crossed_groundings[i],
                                 SizesFor(args.groundings[i], ret.doms, ret.dims0))
  /\ (IsForward /\ ret.err = "none")
       => CarriesActiveDomains(ret.outputs,
                               [i \in 1..Len(args.inputs[1].active_doms) |->
                                  args.inputs[1].shape[i]])

\* ---------------------------------------------------------------------- C7
\* C7: broadcasting a Constant, as the Constant constructor builds it, together
\* with a Variable of n individuals through cross_grounding_values succeeds and
\* returns the constant tiled to shape (n, *constant_shape), every row equal to
\* the constant's value.
C7_ConstantIsTiled ==
  (IsCross /\ ~args.flatten_dim0 /\ Len(args.groundings) = 2
     /\ args.groundings[1] \in ConstantObjs
     /\ (IsVariable(args.groundings[2]) \/ args.groundings[2] \in VariableObjs))
  => /\ ret.err = "none"
     /\ LET c == args.groundings[1].grounding
            n == IF IsVariable(args.groundings[2])
                 THEN args.groundings[2].shape[1]
                 ELSE args.groundings[2].grounding.shape[1]
            out == ret.crossed_groundings[1]
        IN  /\ out.shape = <<n>> \o c.shape
            /\ \A r \in 1..n : row(out, r) = c.data

\* ---------------------------------------------------------------------- C8
\* C8: passing the same Variable (same label, same count n) twice in one call
\* raises no domain-conflict error and does not create two independent axes: the
\* canonical domain list has the label once and the result has a single axis of
\* size n, not n by n.
C8_SameVariableTwice ==
  /\ (IsCross /\ Len(args.groundings) = 2 /\ IsVariable(args.groundings[1])
        /\ args.groundings[2] = args.groundings[1])
       => /\ ret.err = "none"
          /\ ret.doms = args.groundings[1].active_doms
          /\ ret.dims0 = <<args.groundings[1].shape[1]>>
          /\ \A i \in 1..2 :
               ret.crossed_groundings[i].shape = args.groundings[1].shape
  /\ (IsForward /\ args.is_list /\ Len(args.inputs) = 2 /\ IsVariable(args.inputs[1])
        /\ args.inputs[2] = args.inputs[1])
       => /\ ret.err = "none"
          /\ ret.outputs.active_doms = args.inputs[1].active_doms
          /\ ret.outputs.shape = <<args.inputs[1].shape[1]>>

\* ---------------------------------------------------------------------- C9
\* C9: when every input of a Predicate evaluation has zero active domains (only
\* Constants), the result is itself a Constant-like grounding: its active
\* domains are empty and its tensor has no batch axis (it has the rank of a
\* single truth value).
C9_ConstantsGiveConstant ==
  (IsForward /\ Len(args.inputs) >= 1
     /\ (\A i \in 1..Len(args.inputs) : IsConstant(args.inputs[i])))
  => /\ ret.err = "none"
     /\ ret.outputs.active_doms = <<>>
     /\ ret.outputs.shape = <<>>

\* --------------------------------------------------------------------- C10
\* C10: for every Domain D, every label that does not start with "diag" and
\* every sequence of k >= 1 individuals of shape D.shape, constructing a Variable
\* succeeds and yields a grounding of shape (k, *D.shape) with active domains
\* [label]; with a single individual a leading axis of size 1 is materialized.
C10_VariableShape ==
  (call = "Variable"
     /\ ~startswith(args.variable_name, <<"d", "i", "a", "g">>)
     /\ Len(args.individuals_seq.shape) >= 1
     /\ Tail(args.individuals_seq.shape) = args.domain.shape)
  => /\ ret.err = "none"
     /\ ret.obj.grounding.shape = <<args.individuals_seq.shape[1]>> \o args.domain.shape
     /\ ret.obj.free_variables = <<args.variable_name>>

\* --------------------------------------------------------------------- C11
\* a tuple whose elements are all non-negative integers
IsValidShape(shape) ==
  /\ shape.py = "tuple"
  /\ \A i \in 1..Len(shape.items) :
       shape.items[i].type = "int" /\ shape.items[i].val >= 0

\* C11: constructing a Domain fails with an invalid-domain error whenever the
\* shape is not a tuple of non-negative integers (a non-tuple, a tuple holding a
\* non-integer, a tuple holding a negative integer), so every constructed Domain
\* has a shape that is a tuple of non-negative integers.
C11_InvalidShapeRejected ==
  call = "Domain"
  => /\ ~IsValidShape(args.shape) => ret.err # "none"
     /\ ret.err = "none" => IsValidShape(ret.obj.shape)

\* --------------------------------------------------------------------- C12
\* C12: cross_grounding_values is deterministic for a fixed operand order: a run
\* on the same input list that visits each grounding's missing domains in any
\* other order (the iteration of the set difference) returns the same canonical
\* domain list, the same dims list and identical aligned tensors.
C12_OrderIndependent ==
  (IsCross /\ AllGroundings(args.groundings))
  => \A other \in SetOrders(args.groundings) :
       LET again == cross_grounding_values(args.groundings, args.flatten_dim0, other)
       IN  /\ again.err = ret.err
           /\ again.doms = ret.doms
           /\ again.dims0 = ret.dims0
           /\ again.crossed_groundings = ret.crossed_groundings

\* a run that added two domains of different counts to a constant, visiting them
\* against the canonical order, while another visiting order exists
C12_Witness ==
  /\ IsCross /\ ret.err = "none" /\ ~args.flatten_dim0
  /\ Len(args.groundings) = 2
  /\ args.groundings[1].active_doms = <<>>
  /\ ret.doms = <<<<"x">>, <<"y">>>>
  /\ ret.dims0 = <<1, MaxCount>>
  /\ args.order[1] = <<<<"y">>, <<"x">>>>
  /\ Cardinality(SetOrders(args.groundings)) > 1
  /\ ret.crossed_groundings[1].shape = <<1, MaxCount>> \o ValueAxes(args.groundings[1])

\* --------------------------------------------------------------------- C13
\* C13: alignment is idempotent under chaining: feeding the groundings returned
\* by cross_grounding_values (flatten_dim0=False, consistent per-label counts)
\* back into cross_grounding_values returns the same canonical domain list, the
\* same dims list and tensors equal to the first call's outputs.
C13_Idempotent ==
  [][(/\ IsCross /\ ret.err = "none" /\ ~args.flatten_dim0
      /\ Consistent(args.groundings)
      /\ call' = "cross_grounding_values"
      /\ args'.groundings = ret.crossed_groundings
      /\ ~args'.flatten_dim0)
     => (/\ ret'.err = "none"
         /\ ret'.doms = ret.doms
         /\ ret'.dims0 = ret.dims0
         /\ ret'.crossed_groundings = ret.crossed_groundings)]_vars

\* the second call of a chain whose first call had to tile and to permute: its
\* inputs are aligned tensors with repeated entries, and it returns them as
\* they are
C13_Witness ==
  /\ IsCross /\ ret.err = "none" /\ ~args.flatten_dim0
  /\ Len(args.groundings) = 2
  /\ args.groundings[2] = [shape |-> <<MaxCount, MaxCount>>,
                           data |-> [k \in 1..(MaxCount * MaxCount) |-> (k - 1) % MaxCount],
                           active_doms |-> <<<<"y">>, <<"x">>>>]
  /\ args.groundings[1].active_doms = <<<<"y">>, <<"x">>>>
  /\ ret.crossed_groundings = args.groundings
  /\ ret.doms = <<<<"y">>, <<"x">>>>
  /\ ret.dims0 = <<MaxCount, MaxCount>>

====
